---- MODULE Spec2Model ----
\* Model of keyboards/gmmk/gmmk2/p65/iso/keymaps/villur/keymap.c: the three
\* layer tables, the RGB indicator callback and the key-intercept callback
\* process_record_user, driven by the firmware's key-event pipeline.
EXTENDS Integers, Sequences, FiniteSets, TLC

\* ---------------------------------------------------------------- bounds
\* Number of physical key positions the environment may press (taken from
\* KeyOrder) and number of LEDs of the matrix.
NumKeys == 5
NumLeds == 2

\* ---------------------------------------------------------------- layers
\* enum custom_layers
_BL == 0
_CS == 1
_FL == 2

\* keymaps[_BL]: the base layer, in the order of LAYOUT_65_iso_blocker's arguments.
keymaps_BL ==
  << "QK_GESC", "KC_1", "KC_2", "KC_3", "KC_4", "KC_5", "KC_6", "KC_7",
     "KC_8", "KC_9", "KC_0", "KC_MINS", "KC_EQL", "KC_BSPC", "KC_PSCR", "KC_TAB",
     "KC_Q", "KC_W", "KC_E", "KC_R", "KC_T", "KC_Y", "KC_U", "KC_I",
     "KC_O", "KC_P", "KC_LBRC", "KC_RBRC", "KC_INS", "KC_F13", "KC_A", "KC_S",
     "KC_D", "KC_F", "KC_G", "KC_H", "KC_J", "KC_K", "KC_L", "KC_SCLN",
     "KC_QUOT", "KC_NUHS", "KC_ENT", "KC_DEL", "KC_LSFT", "KC_NUBS", "KC_Z", "KC_X",
     "KC_C", "KC_V", "KC_B", "KC_N", "KC_M", "KC_COMM", "KC_DOT", "KC_SLSH",
     "KC_RSFT", "KC_UP", "KC_END", "KC_LCTL", "KC_LGUI", "KC_LALT", "KC_SPC", "KC_RALT",
     "MO(_FL)", "KC_LEFT", "KC_DOWN", "KC_RGHT" >>

\* Variant of keymaps[_CS] with Caps Lock left of A, as on the function layer.
keymaps_CS_CapsLock ==
  << "QK_GESC", "KC_1", "KC_2", "KC_3", "KC_4", "KC_5", "KC_6", "KC_7",
     "KC_8", "KC_9", "KC_0", "KC_MINS", "KC_EQL", "KC_BSPC", "KC_PSCR", "KC_TAB",
     "KC_Q", "KC_W", "KC_E", "KC_R", "KC_T", "KC_Y", "KC_U", "KC_I",
     "KC_O", "KC_P", "KC_LBRC", "KC_RBRC", "KC_INS", "KC_CAPS", "KC_A", "KC_S",
     "KC_D", "KC_F", "KC_G", "KC_H", "KC_J", "KC_K", "KC_L", "KC_SCLN",
     "KC_QUOT", "KC_NUHS", "KC_ENT", "KC_DEL", "KC_LSFT", "KC_NUBS", "KC_Z", "KC_X",
     "KC_C", "KC_V", "KC_B", "KC_N", "KC_M", "KC_COMM", "KC_DOT", "KC_SLSH",
     "KC_RSFT", "KC_UP", "KC_END", "KC_LCTL", "KC_LGUI", "KC_LALT", "KC_SPC", "KC_RALT",
     "MO(_FL)", "KC_LEFT", "KC_DOWN", "KC_RGHT" >>

\* keymaps[_CS]: the secondary base layer.
keymaps_CS ==
  << "QK_GESC", "KC_1", "KC_2", "KC_3", "KC_4", "KC_5", "KC_6", "KC_7",
     "KC_8", "KC_9", "KC_0", "KC_MINS", "KC_EQL", "KC_BSPC", "KC_PSCR", "KC_TAB",
     "KC_Q", "KC_W", "KC_E", "KC_R", "KC_T", "KC_Y", "KC_U", "KC_I",
     "KC_O", "KC_P", "KC_LBRC", "KC_RBRC", "KC_INS", "KC_F13", "KC_A", "KC_S",
     "KC_D", "KC_F", "KC_G", "KC_H", "KC_J", "KC_K", "KC_L", "KC_SCLN",
     "KC_QUOT", "KC_NUHS", "KC_ENT", "KC_DEL", "KC_LSFT", "KC_NUBS", "KC_Z", "KC_X",
     "KC_C", "KC_V", "KC_B", "KC_N", "KC_M", "KC_COMM", "KC_DOT", "KC_SLSH",
     "KC_RSFT", "KC_UP", "KC_END", "KC_LCTL", "KC_LGUI", "KC_LALT", "KC_SPC", "KC_RALT",
     "MO(_FL)", "KC_LEFT", "KC_DOWN", "KC_RGHT" >>

\* keymaps[_FL]: the function layer.
keymaps_FL ==
  << "KC_TILDE", "KC_F1", "KC_F2", "KC_F3", "KC_F4", "KC_F5", "KC_F6", "KC_F7",
     "KC_F8", "KC_F9", "KC_F10", "KC_F11", "KC_F12", "_______", "KC_INS", "_______",
     "_______", "_______", "_______", "_______", "_______", "_______", "_______", "_______",
     "_______", "KC_PSCR", "KC_SCRL", "KC_PAUS", "_______", "KC_CAPS", "TO(_BL)", "TO(_CS)",
     "_______", "_______", "_______", "_______", "_______", "_______", "_______", "_______",
     "_______", "_______", "_______", "_______", "_______", "_______", "RGB_HUI", "RGB_HUD",
     "RGB_SPD", "RGB_SPI", "KC_MUTE", "KC_VOLU", "KC_VOLD", "KC_MPRV", "KC_MPLY", "KC_MNXT",
     "_______", "RGB_VAI", "KC_HOME", "_______", "_______", "_______", "QK_BOOT", "_______",
     "_______", "RGB_RMOD", "RGB_VAD", "RGB_MOD" >>

\* keymaps[layer][position]
keymaps == [l \in {_BL, _CS, _FL} |->
              IF l = _BL THEN keymaps_BL ELSE IF l = _CS THEN keymaps_CS ELSE keymaps_FL]

Positions == 1..Len(keymaps_BL)

\* The four intercepted keycodes and the pairing the callback hard-codes.
WASD == {"KC_A", "KC_D", "KC_W", "KC_S"}
Opposite(k) == CASE k = "KC_A" -> "KC_D" [] k = "KC_D" -> "KC_A"
                 [] k = "KC_W" -> "KC_S" [] k = "KC_S" -> "KC_W"

\* ------------------------------------------------------------ firmware
\* Keycodes of the tables that are not plain HID keycodes: layer actions,
\* the transparent entry, lighting and firmware commands, and keycodes that
\* expand to more than one HID code.
LayerKeycodes == {"MO(_FL)", "TO(_BL)", "TO(_CS)"}
NonBasicKeycodes == LayerKeycodes \cup
   {"_______", "QK_GESC", "QK_BOOT", "KC_TILDE", "RGB_HUI", "RGB_HUD", "RGB_SPD",
    "RGB_SPI", "RGB_VAI", "RGB_VAD", "RGB_MOD", "RGB_RMOD"}
IsBasic(kc) == kc \notin NonBasicKeycodes

\* The positions the environment presses, most relevant first: MO(_FL), S
\* (TO(_CS) on _FL), D, A (TO(_BL) on _FL), W, then Q, E, R.
KeyOrder == <<65, 32, 33, 31, 18, 17, 19, 20>>
Keys == {KeyOrder[i] : i \in 1..NumKeys}

Max(S) == CHOOSE x \in S : \A y \in S : y <= x

\* get_highest_layer(state): the highest set bit, 0 when none is set.
get_highest_layer(state) == IF state = {} THEN 0 ELSE Max(state)

\* Key lookup: the highest active layer (the default layer _BL is always
\* active) whose entry at the position is not transparent.
keymap_key_to_keycode(state, p) ==
   LET active == state \cup {_BL}
       opaque == {l \in active : keymaps[l][p] /= "_______"}
   IN  keymaps[Max(opaque)][p]

\* register_code / unregister_code on the set of keycodes in the report.
register_code(r, kc) == r \cup {kc}
unregister_code(r, kc) == r \ {kc}

RECURSIVE ApplyCalls(_, _)
ApplyCalls(r, cs) ==
   IF cs = <<>> THEN r
   ELSE ApplyCalls(IF Head(cs)[1] = "register" THEN register_code(r, Head(cs)[2])
                   ELSE unregister_code(r, Head(cs)[2]), Tail(cs))

\* --------------------------------------------------------------- state
VARIABLES
   layer_state,   \* set of active layers (the bits of layer_state)
   aHeld, dHeld, wHeld, sHeld,   \* the statics of process_record_user
   registered,    \* keycodes currently registered in the output report
   down,          \* position -> keycode it was pressed as, "NO" when up
   leds,          \* LED index -> colour
   clean,         \* since A, D, W, S were last all up with nothing held or
                  \* registered, none of them had an event outside layer 1
   last           \* the last callback invocation and what it did

vars == <<layer_state, aHeld, dHeld, wHeld, sHeld, registered, down, leds, clean, last>>

Held == [aHeld |-> aHeld, dHeld |-> dHeld, wHeld |-> wHeld, sHeld |-> sHeld]

Off == <<0, 0, 0>>
NoneHeld == [aHeld |-> FALSE, dHeld |-> FALSE, wHeld |-> FALSE, sHeld |-> FALSE]
NoCall == [kind |-> "none", keycode |-> "NO", pressed |-> FALSE, layer |-> 0,
           ret |-> TRUE, calls |-> <<>>, heldBefore |-> NoneHeld, regBefore |-> {},
           stateBefore |-> {}, led_min |-> 0, led_max |-> 0]

\* ----------------------------------------------------------- callbacks
\* The colour rgb_matrix_indicators_advanced_user chooses for a layer.
IndicatorColour(layer) ==
   CASE layer = 1 -> <<0, 255, 0>>
     [] layer = 2 -> <<255, 153, 255>>
     [] OTHER     -> <<255, 255, 255>>

\* rgb_matrix_set_color_all(r, g, b)
rgb_matrix_set_color_all(c) == [i \in 0..(NumLeds - 1) |-> c]

\* Variant that colours only the LEDs of the range it is called for.
rgb_matrix_indicators_advanced_user_RangeOnly(led_min, led_max, state) ==
   [leds |-> [i \in 0..(NumLeds - 1) |->
                IF led_min <= i /\ i < led_max
                THEN IndicatorColour(get_highest_layer(state)) ELSE leds[i]],
    ret  |-> FALSE]

\* bool rgb_matrix_indicators_advanced_user(led_min, led_max): the LEDs
\* after the call and the value returned.
rgb_matrix_indicators_advanced_user(led_min, led_max, state) ==
   [leds |-> rgb_matrix_set_color_all(IndicatorColour(get_highest_layer(state))),
    ret  |-> FALSE]

\* bool process_record_user(keycode, record): pressed is
\* record->event.pressed, h the four statics on entry.  The result carries
\* the statics on exit, the register/unregister calls made, in order, and
\* the value returned.
\* Variant of the KC_A branch that stores the event in wHeld.
process_record_user_KC_A_WrongFlag(pressed, h) ==
   LET a  == pressed
       h1 == [h EXCEPT !.wHeld = a]
   IN  IF h.dHeld /\ a THEN
          [held |-> h1, calls |-> << <<"unregister", "KC_D">> >>, ret |-> TRUE]
       ELSE IF h.dHeld /\ ~a THEN
          [held |-> h1,
           calls |-> << <<"unregister", "KC_A">>, <<"register", "KC_D">> >>,
           ret |-> FALSE]
       ELSE [held |-> h1, calls |-> <<>>, ret |-> TRUE]

\* Variant of the KC_A branch that forgets to unregister KC_D on a press.
process_record_user_KC_A_NoUnregister(pressed, h) ==
   LET a  == pressed
       h1 == [h EXCEPT !.aHeld = a]
   IN  IF h.dHeld /\ ~a THEN
          [held |-> h1,
           calls |-> << <<"unregister", "KC_A">>, <<"register", "KC_D">> >>,
           ret |-> FALSE]
       ELSE [held |-> h1, calls |-> <<>>, ret |-> TRUE]

\* case KC_A: the branch of the switch for KC_A.
process_record_user_KC_A(pressed, h) ==
   LET a  == pressed
       h1 == [h EXCEPT !.aHeld = a]
   IN  IF h.dHeld /\ a THEN
          [held |-> h1, calls |-> << <<"unregister", "KC_D">> >>, ret |-> TRUE]
       ELSE IF h.dHeld /\ ~a THEN
          [held |-> h1,
           calls |-> << <<"unregister", "KC_A">>, <<"register", "KC_D">> >>,
           ret |-> FALSE]
       ELSE [held |-> h1, calls |-> <<>>, ret |-> TRUE]

\* Variant of the KC_D branch that does not register KC_A again on release.
process_record_user_KC_D_NoHandBack(pressed, h) ==
   LET d  == pressed
       h1 == [h EXCEPT !.dHeld = d]
   IN  IF h.aHeld /\ d THEN
          [held |-> h1, calls |-> << <<"unregister", "KC_A">> >>, ret |-> TRUE]
       ELSE IF h.aHeld /\ ~d THEN
          [held |-> h1, calls |-> << <<"unregister", "KC_D">> >>, ret |-> FALSE]
       ELSE [held |-> h1, calls |-> <<>>, ret |-> TRUE]

\* case KC_D: the branch of the switch for KC_D.
process_record_user_KC_D(pressed, h) ==
   LET d  == pressed
       h1 == [h EXCEPT !.dHeld = d]
   IN  IF h.aHeld /\ d THEN
          [held |-> h1, calls |-> << <<"unregister", "KC_A">> >>, ret |-> TRUE]
       ELSE IF h.aHeld /\ ~d THEN
          [held |-> h1,
           calls |-> << <<"unregister", "KC_D">>, <<"register", "KC_A">> >>,
           ret |-> FALSE]
       ELSE [held |-> h1, calls |-> <<>>, ret |-> TRUE]

\* Variant of the KC_W branch without the hand-back on release.
process_record_user_KC_W_NoReleaseBranch(pressed, h) ==
   LET w  == pressed
       h1 == [h EXCEPT !.wHeld = w]
   IN  IF h.sHeld /\ w THEN
          [held |-> h1, calls |-> << <<"unregister", "KC_S">> >>, ret |-> TRUE]
       ELSE [held |-> h1, calls |-> <<>>, ret |-> TRUE]

\* Variant of the KC_W branch that returns true after handing back to KC_S.
process_record_user_KC_W_ReleaseTrue(pressed, h) ==
   LET w  == pressed
       h1 == [h EXCEPT !.wHeld = w]
   IN  IF h.sHeld /\ w THEN
          [held |-> h1, calls |-> << <<"unregister", "KC_S">> >>, ret |-> TRUE]
       ELSE IF h.sHeld /\ ~w THEN
          [held |-> h1,
           calls |-> << <<"unregister", "KC_W">>, <<"register", "KC_S">> >>,
           ret |-> TRUE]
       ELSE [held |-> h1, calls |-> <<>>, ret |-> TRUE]

\* case KC_W: the branch of the switch for KC_W.
process_record_user_KC_W(pressed, h) ==
   LET w  == pressed
       h1 == [h EXCEPT !.wHeld = w]
   IN  IF h.sHeld /\ w THEN
          [held |-> h1, calls |-> << <<"unregister", "KC_S">> >>, ret |-> TRUE]
       ELSE IF h.sHeld /\ ~w THEN
          [held |-> h1,
           calls |-> << <<"unregister", "KC_W">>, <<"register", "KC_S">> >>,
           ret |-> FALSE]
       ELSE [held |-> h1, calls |-> <<>>, ret |-> TRUE]

\* Variant of the KC_S branch that unregisters KC_S instead of KC_W on a press.
process_record_user_KC_S_WrongKey(pressed, h) ==
   LET s  == pressed
       h1 == [h EXCEPT !.sHeld = s]
   IN  IF h.wHeld /\ s THEN
          [held |-> h1, calls |-> << <<"unregister", "KC_S">> >>, ret |-> TRUE]
       ELSE IF h.wHeld /\ ~s THEN
          [held |-> h1,
           calls |-> << <<"unregister", "KC_S">>, <<"register", "KC_W">> >>,
           ret |-> FALSE]
       ELSE [held |-> h1, calls |-> <<>>, ret |-> TRUE]

\* case KC_S: the branch of the switch for KC_S.
process_record_user_KC_S(pressed, h) ==
   LET s  == pressed
       h1 == [h EXCEPT !.sHeld = s]
   IN  IF h.wHeld /\ s THEN
          [held |-> h1, calls |-> << <<"unregister", "KC_W">> >>, ret |-> TRUE]
       ELSE IF h.wHeld /\ ~s THEN
          [held |-> h1,
           calls |-> << <<"unregister", "KC_S">>, <<"register", "KC_W">> >>,
           ret |-> FALSE]
       ELSE [held |-> h1, calls |-> <<>>, ret |-> TRUE]

\* Variant that intercepts on every layer above the base layer.
process_record_user_AnyUpperLayer(keycode, pressed, state, h) ==
   IF get_highest_layer(state) >= 1 THEN
      CASE keycode = "KC_A" -> process_record_user_KC_A(pressed, h)
        [] keycode = "KC_D" -> process_record_user_KC_D(pressed, h)
        [] keycode = "KC_W" -> process_record_user_KC_W(pressed, h)
        [] keycode = "KC_S" -> process_record_user_KC_S(pressed, h)
        [] OTHER -> [held |-> h, calls |-> <<>>, ret |-> TRUE]
   ELSE [held |-> h, calls |-> <<>>, ret |-> TRUE]

\* Variant whose default case swallows the key.
process_record_user_DefaultFalse(keycode, pressed, state, h) ==
   IF get_highest_layer(state) = 1 THEN
      CASE keycode = "KC_A" -> process_record_user_KC_A(pressed, h)
        [] keycode = "KC_D" -> process_record_user_KC_D(pressed, h)
        [] keycode = "KC_W" -> process_record_user_KC_W(pressed, h)
        [] keycode = "KC_S" -> process_record_user_KC_S(pressed, h)
        [] OTHER -> [held |-> h, calls |-> <<>>, ret |-> FALSE]
   ELSE [held |-> h, calls |-> <<>>, ret |-> TRUE]

process_record_user(keycode, pressed, state, h) ==
   IF get_highest_layer(state) = 1 THEN
      CASE keycode = "KC_A" -> process_record_user_KC_A(pressed, h)
        [] keycode = "KC_D" -> process_record_user_KC_D(pressed, h)
        [] keycode = "KC_W" -> process_record_user_KC_W(pressed, h)
        [] keycode = "KC_S" -> process_record_user_KC_S(pressed, h)
        [] OTHER -> [held |-> h, calls |-> <<>>, ret |-> TRUE]
   ELSE [held |-> h, calls |-> <<>>, ret |-> TRUE]

\* ------------------------------------------------- firmware's handling
\* The default handling of a key event the callback let through: a plain
\* keycode is registered on press and unregistered on release, MO(_FL)
\* turns layer _FL on while held, TO(layer) makes that layer the only
\* active one on press.
action_registered(kc, pressed, r) ==
   IF IsBasic(kc) THEN (IF pressed THEN register_code(r, kc) ELSE unregister_code(r, kc))
   ELSE r

action_layer_state(kc, pressed, state) ==
   CASE kc = "MO(_FL)" -> IF pressed THEN state \cup {_FL} ELSE state \ {_FL}
     [] kc = "TO(_BL)" -> IF pressed THEN {_BL} ELSE state
     [] kc = "TO(_CS)" -> IF pressed THEN {_CS} ELSE state
     [] OTHER -> state

\* One key event through the pipeline: the callback first, its calls
\* applied to the report, then the default handling unless it returned false.
process_record(kc, pressed) ==
   LET r   == process_record_user(kc, pressed, layer_state, Held)
       reg == ApplyCalls(registered, r.calls)
   IN  /\ aHeld' = r.held.aHeld
       /\ dHeld' = r.held.dHeld
       /\ wHeld' = r.held.wHeld
       /\ sHeld' = r.held.sHeld
       /\ registered' = IF r.ret THEN action_registered(kc, pressed, reg) ELSE reg
       /\ layer_state' = IF r.ret THEN action_layer_state(kc, pressed, layer_state)
                         ELSE layer_state
       /\ last' = [kind |-> "key", keycode |-> kc, pressed |-> pressed,
                   layer |-> get_highest_layer(layer_state),
                   ret |-> r.ret, calls |-> r.calls, heldBefore |-> Held,
                   regBefore |-> registered, stateBefore |-> layer_state,
                   led_min |-> 0, led_max |-> 0]

\* ---------------------------------------------------------------- actions
Init ==
   /\ layer_state = {}
   /\ aHeld = FALSE /\ dHeld = FALSE /\ wHeld = FALSE /\ sHeld = FALSE
   /\ registered = {}
   /\ down = [p \in Keys |-> "NO"]
   /\ leds = [i \in 0..(NumLeds - 1) |-> Off]
   /\ clean = TRUE
   /\ last = NoCall

\* The key positions of A, D, W and S, and the two ways a key counts as
\* physically pressed: by its position, or by the keycode it went down as.
WASDPositions == {p \in Positions : keymaps[_BL][p] \in WASD}
PositionDown(k) == \E p \in Keys : keymaps[_BL][p] = k /\ down[p] /= "NO"
PressedAs(k) == \E p \in Keys : down[p] = k

\* A, D, W and S are all up, no flag is set and none of them is registered.
Fresh(dn, h, r) ==
   /\ \A p \in Keys \cap WASDPositions : dn[p] = "NO"
   /\ h = NoneHeld
   /\ r \cap WASD = {}

\* The value of clean after an event of position p with keycode kc.
CleanAfter(p, kc) ==
   \/ Fresh(down', Held', registered')
   \/ /\ clean
      /\ ~((p \in WASDPositions \/ kc \in WASD) /\ get_highest_layer(layer_state) /= 1)

\* A released key goes down: it takes the keycode of the layers active now.
KeyPress(p) ==
   /\ down[p] = "NO"
   /\ LET kc == keymap_key_to_keycode(layer_state, p)
      IN  /\ down' = [down EXCEPT ![p] = kc]
          /\ process_record(kc, TRUE)
          /\ clean' = CleanAfter(p, kc)
   /\ UNCHANGED leds

\* A pressed key goes up: it is released as the keycode it was pressed as.
KeyRelease(p) ==
   /\ down[p] /= "NO"
   /\ down' = [down EXCEPT ![p] = "NO"]
   /\ process_record(down[p], FALSE)
   /\ clean' = CleanAfter(p, down[p])
   /\ UNCHANGED leds

\* The lighting subsystem renders a frame for the LED range [led_min, led_max).
Indicator(led_min, led_max) ==
   LET r == rgb_matrix_indicators_advanced_user(led_min, led_max, layer_state)
   IN  /\ leds' = r.leds
       /\ last' = [kind |-> "rgb", keycode |-> "NO", pressed |-> FALSE,
                   layer |-> get_highest_layer(layer_state),
                   ret |-> r.ret, calls |-> <<>>, heldBefore |-> Held,
                   regBefore |-> registered, stateBefore |-> layer_state,
                   led_min |-> led_min, led_max |-> led_max]
       /\ UNCHANGED <<layer_state, aHeld, dHeld, wHeld, sHeld, registered, down, clean>>

Next ==
   \/ \E p \in Keys : KeyPress(p)
   \/ \E p \in Keys : KeyRelease(p)
   \/ \E led_min \in 0..(NumLeds - 1) : \E led_max \in (led_min + 1)..NumLeds :
         Indicator(led_min, led_max)

Spec == Init /\ [][Next]_vars

\* ------------------------------------------------------------ properties
Layer1 == get_highest_layer(layer_state) = 1

\* KC_A and KC_D are not both in the report, nor KC_W and KC_S.
Exclusive(r) ==
   /\ ~("KC_A" \in r /\ "KC_D" \in r)
   /\ ~("KC_W" \in r /\ "KC_S" \in r)

\* The held flag that belongs to keycode k, in a record of the four flags.
FlagOf(h, k) == CASE k = "KC_A" -> h.aHeld [] k = "KC_D" -> h.dHeld
                  [] k = "KC_W" -> h.wHeld [] k = "KC_S" -> h.sHeld

\* The last callback invocation was process_record_user / the indicator.
LastKey == last.kind = "key"
LastRgb == last.kind = "rgb"

\* C1: from a state with A, D, W, S up, no flag set and nothing registered,
\* as long as every A/D/W/S event is processed with layer 1 the highest
\* active layer, KC_A and KC_D are never both registered, and neither are
\* KC_W and KC_S.
C1_ExclusiveWithinLayer1 == clean => Exclusive(registered)

\* Both keys of a pair are down after events in layer 1 only, and the one
\* pressed last is the only one registered.
C1_Witness ==
   /\ clean /\ LastKey /\ last.layer = 1
   /\ last.keycode = "KC_D" /\ last.pressed
   /\ PressedAs("KC_A") /\ PressedAs("KC_D")
   /\ registered \cap WASD = {"KC_D"}

\* C2: whenever layer 1 is the highest active layer, whatever happened in
\* other layers before, KC_A and KC_D are not both registered and KC_W and
\* KC_S are not both registered.
C2_ExclusiveAcrossLayers == Layer1 => Exclusive(registered)

\* C3: a call of process_record_user while the highest active layer is not 1
\* returns true, makes no register_code or unregister_code call and leaves
\* the four held flags as they were.
C3_InactiveOutsideLayer1 ==
   (LastKey /\ last.layer /= 1) =>
      /\ last.ret = TRUE
      /\ last.calls = <<>>
      /\ Held = last.heldBefore

\* D is released on layer 2 while its flag is set: the flag stays set.
C3_Witness ==
   /\ LastKey /\ last.layer = 2
   /\ last.keycode = "KC_D" /\ ~last.pressed
   /\ last.heldBefore.dHeld /\ dHeld

\* C4: on layer 1, a call of process_record_user for a keycode other than
\* KC_A, KC_D, KC_W, KC_S returns true, makes no register_code or
\* unregister_code call and leaves the four held flags as they were.
C4_OnlyFourKeysIntercepted ==
   (LastKey /\ last.layer = 1 /\ last.keycode \notin WASD) =>
      /\ last.ret = TRUE
      /\ last.calls = <<>>
      /\ Held = last.heldBefore

\* MO(_FL) is pressed on layer 1 while A and D are both held: the default
\* case lets it through and the firmware turns _FL on.
C4_Witness ==
   /\ LastKey /\ last.layer = 1
   /\ last.keycode = "MO(_FL)" /\ last.pressed
   /\ aHeld /\ dHeld
   /\ layer_state = {_CS, _FL}

\* C5: a call of rgb_matrix_indicators_advanced_user sets every LED to
\* (0,255,0) on layer 1, (255,153,255) on layer 2 and (255,255,255) on any
\* other layer, whatever led_min, led_max, the held flags and the report
\* are; it changes neither the layer state nor the flags nor the report, and
\* returns false.
C5_IndicatorPureInLayer ==
   LastRgb =>
      /\ \A i \in 0..(NumLeds - 1) :
            leds[i] = IF last.layer = 1 THEN <<0, 255, 0>>
                      ELSE IF last.layer = 2 THEN <<255, 153, 255>>
                      ELSE <<255, 255, 255>>
      /\ last.ret = FALSE
      /\ layer_state = last.stateBefore
      /\ Held = last.heldBefore
      /\ registered = last.regBefore

\* The indicator runs on layer 1 for a range that is not the whole matrix,
\* with a flag set and a key registered.
C5_Witness ==
   /\ LastRgb /\ last.layer = 1
   /\ last.led_min > 0
   /\ aHeld /\ "KC_A" \in registered

\* C6: on layer 1, when a key of a pair is pressed while the held flag of
\* its opposite is set, process_record_user unregisters the opposite key
\* (and nothing else) and returns true, and after the event the pressed key
\* is registered and the opposite key is not.
C6_LastInputWins ==
   (LastKey /\ last.layer = 1 /\ last.pressed /\ last.keycode \in WASD) =>
      (FlagOf(last.heldBefore, Opposite(last.keycode)) =>
          /\ last.calls = << <<"unregister", Opposite(last.keycode)>> >>
          /\ last.ret = TRUE
          /\ last.keycode \in registered
          /\ Opposite(last.keycode) \notin registered)

\* S is pressed on layer 1 while W is held and registered.
C6_Witness ==
   /\ LastKey /\ last.layer = 1
   /\ last.keycode = "KC_S" /\ last.pressed
   /\ last.heldBefore.wHeld /\ "KC_W" \in last.regBefore
   /\ PressedAs("KC_W")

\* C7: in a run whose A/D/W/S events were all processed on layer 1, right
\* after a key of a pair is released while its opposite is still physically
\* pressed, the opposite key is registered and the released key is not.
C7_ReleaseHandsBack ==
   (clean /\ LastKey /\ last.layer = 1 /\ ~last.pressed /\ last.keycode \in WASD) =>
      ((PressedAs(Opposite(last.keycode)) \/ PositionDown(Opposite(last.keycode))) =>
          /\ Opposite(last.keycode) \in registered
          /\ last.keycode \notin registered)

\* A is released while D, pressed before A, is still down: D was suppressed
\* and comes back.
C7_Witness ==
   /\ clean /\ LastKey /\ last.layer = 1
   /\ last.keycode = "KC_A" /\ ~last.pressed
   /\ PressedAs("KC_D")
   /\ "KC_A" \in last.regBefore /\ "KC_D" \notin last.regBefore
   /\ "KC_D" \in registered

\* C8: process_record_user returns false exactly when the highest active
\* layer is 1, the keycode is one of KC_A, KC_D, KC_W, KC_S, the event is a
\* release and the held flag of the opposite key is set.
C8_ReturnsFalseIff ==
   LastKey =>
      ((last.ret = FALSE) <=>
          /\ last.layer = 1
          /\ last.keycode \in WASD
          /\ ~last.pressed
          /\ FlagOf(last.heldBefore, Opposite(last.keycode)))

\* W is released on layer 1 while sHeld is set, and the call returned false.
C8_Witness ==
   /\ LastKey /\ last.layer = 1
   /\ last.keycode = "KC_W" /\ ~last.pressed
   /\ last.heldBefore.sHeld
   /\ last.ret = FALSE

\* C9: whenever none of the keys A, D, W, S is physically pressed, none of
\* KC_A, KC_D, KC_W, KC_S is registered.
C9_NoStuckKeys ==
   (\A k \in WASD : ~PositionDown(k) /\ ~PressedAs(k)) => registered \cap WASD = {}

\* C10: whenever layer 1 is the highest active layer, each held flag is true
\* exactly when its key is physically pressed (counted by position or by
\* the keycode the key went down as).
C10_FlagsTrackKeys ==
   Layer1 => \A k \in WASD : \/ FlagOf(Held, k) = PressedAs(k)
                             \/ FlagOf(Held, k) = PositionDown(k)

\* The pair a keycode of the four belongs to.
PairOf(k) == IF k \in {"KC_A", "KC_D"} THEN {"KC_A", "KC_D"} ELSE {"KC_W", "KC_S"}

\* C11: an event with keycode KC_A or KC_D leaves wHeld and sHeld alone and
\* neither registers nor unregisters KC_W or KC_S, and the same with the
\* pairs exchanged; of the four flags, only the one of the event's own key
\* can change.
C11_PairsIndependent ==
   (LastKey /\ last.keycode \in WASD) =>
      /\ \A k \in WASD \ {last.keycode} : FlagOf(Held, k) = FlagOf(last.heldBefore, k)
      /\ \A i \in 1..Len(last.calls) : last.calls[i][2] \in PairOf(last.keycode)
      /\ registered \ PairOf(last.keycode) = last.regBefore \ PairOf(last.keycode)

\* A is released on layer 1 with D held, while W and S are both held and S
\* is the registered one: the hand-back to D leaves the other pair as it is.
C11_Witness ==
   /\ LastKey /\ last.layer = 1
   /\ last.keycode = "KC_A" /\ ~last.pressed
   /\ last.heldBefore.aHeld /\ ~aHeld
   /\ dHeld /\ wHeld /\ sHeld
   /\ registered \cap WASD = {"KC_D", "KC_S"}

\* The renamings of the four keys: A with D, W with S, and the pair A, D
\* with the pair W, S (A to W, D to S and back).
SwapAD == [k \in WASD |-> CASE k = "KC_A" -> "KC_D" [] k = "KC_D" -> "KC_A"
                            [] k = "KC_W" -> "KC_W" [] k = "KC_S" -> "KC_S"]
SwapWS == [k \in WASD |-> CASE k = "KC_A" -> "KC_A" [] k = "KC_D" -> "KC_D"
                            [] k = "KC_W" -> "KC_S" [] k = "KC_S" -> "KC_W"]
SwapPairs == [k \in WASD |-> CASE k = "KC_A" -> "KC_W" [] k = "KC_D" -> "KC_S"
                               [] k = "KC_W" -> "KC_A" [] k = "KC_S" -> "KC_D"]
Renamings == {SwapAD, SwapWS, SwapPairs}

\* A keycode, the four flags and a report with the keys renamed by rho.
Rename(rho, k) == IF k \in WASD THEN rho[k] ELSE k
RenamedFrom(rho, k) == CHOOSE j \in WASD : rho[j] = k
RenameHeld(rho, h) ==
   [aHeld |-> FlagOf(h, RenamedFrom(rho, "KC_A")),
    dHeld |-> FlagOf(h, RenamedFrom(rho, "KC_D")),
    wHeld |-> FlagOf(h, RenamedFrom(rho, "KC_W")),
    sHeld |-> FlagOf(h, RenamedFrom(rho, "KC_S"))]
RenameSet(rho, r) == {Rename(rho, k) : k \in r}

\* The last key event replayed with the keys renamed: the callback's result
\* on the renamed keycode from the renamed flags, and the report the
\* firmware ends with from the renamed report.
RenamedCall(rho) ==
   process_record_user(Rename(rho, last.keycode), last.pressed, last.stateBefore,
                       RenameHeld(rho, last.heldBefore))
RenamedOutput(rho) ==
   LET r   == RenamedCall(rho)
       reg == ApplyCalls(RenameSet(rho, last.regBefore), r.calls)
   IN  IF r.ret THEN action_registered(Rename(rho, last.keycode), last.pressed, reg)
       ELSE reg

\* C12: on layer 1 every key event commutes with each renaming: handled
\* with the keys renamed it returns the same value and ends with the renamed
\* flags and the renamed report.  The initial state is its own renaming, so
\* step by step a renamed event sequence yields the same return values and
\* the renamed flags and output.
C12_SymmetricUnderRenaming ==
   (LastKey /\ last.layer = 1) =>
      \A rho \in Renamings :
         /\ RenamedCall(rho).ret = last.ret
         /\ RenamedCall(rho).held = RenameHeld(rho, Held)
         /\ RenamedOutput(rho) = RenameSet(rho, registered)

\* A is released on layer 1 with D held and S held alone: the event returns
\* false and hands back to D; renamed to the other pair it is a release of
\* W with S held, from flags that differ from the original ones.
C12_Witness ==
   /\ LastKey /\ last.layer = 1
   /\ last.keycode = "KC_A" /\ ~last.pressed
   /\ last.ret = FALSE
   /\ last.heldBefore.dHeld /\ last.heldBefore.sHeld /\ ~last.heldBefore.wHeld
   /\ RenameHeld(SwapPairs, last.heldBefore) /= last.heldBefore
   /\ RenamedCall(SwapPairs).ret = FALSE
   /\ RenamedOutput(SwapPairs) \cap WASD = {"KC_S", "KC_D"}

\* The part of C13 that is about the tables alone.
KeymapsAgree ==
   /\ Len(keymaps[_CS]) = Len(keymaps[_BL])
   /\ \A p \in Positions : keymaps[_CS][p] = keymaps[_BL][p]
   /\ \A k \in WASD \cup {"MO(_FL)"} :
         /\ \E p \in Positions : keymaps[_BL][p] = k
         /\ \A p \in Positions : (keymaps[_BL][p] = k) <=> (keymaps[_CS][p] = k)
   /\ \E p \in Positions : keymaps[_FL][p] = "TO(_BL)"
   /\ \E p \in Positions : keymaps[_FL][p] = "TO(_CS)"
   /\ \A p \in Positions : keymaps[_BL][p] = "MO(_FL)" => keymaps[_FL][p] = "_______"

\* C13: layer _CS has the keycode of layer _BL at every position; both have
\* KC_A, KC_D, KC_W, KC_S and MO(_FL) at the same positions; layer _FL has
\* TO(_BL) and TO(_CS) and is transparent where the base layers have
\* MO(_FL).  Hence a key that is down went down as its _BL keycode unless
\* it took its keycode from _FL.
C13_SecondaryLayerSameKeys ==
   /\ KeymapsAgree
   /\ \A p \in Keys : down[p] /= "NO" =>
         down[p] \in {keymaps[_BL][p], keymaps[_FL][p]}

\* From layer _CS, entered with TO(_CS), the key that is MO(_FL) on the base
\* layer is held and TO(_BL) is pressed on _FL, while D, pressed on _CS, is
\* down as KC_D.
C13_Witness ==
   /\ LastKey /\ last.pressed /\ last.keycode = "TO(_BL)"
   /\ last.stateBefore = {_CS, _FL}
   /\ \E p \in Keys : keymaps[_BL][p] = "MO(_FL)" /\ down[p] = "MO(_FL)"
   /\ PressedAs("KC_D") /\ dHeld

TypeOK ==
   /\ layer_state \subseteq {_BL, _CS, _FL}
   /\ aHeld \in BOOLEAN /\ dHeld \in BOOLEAN /\ wHeld \in BOOLEAN /\ sHeld \in BOOLEAN
   /\ clean \in BOOLEAN
====
